---- MODULE Spec2Model ----
(***************************************************************************)
(* growi-mcp-server: the tools/call dispatcher of src/index.ts and the     *)
(* tool functions it (and the tests) call, modelled as a state machine.    *)
(*                                                                         *)
(* Strings that the code inspects (startsWith, parseInt, Number) are       *)
(* sequences of one-character strings; texts the code only builds are TLC  *)
(* strings.  A JavaScript number is a record [k, v]: k is "fin", "nan",    *)
(* "inf" or "ninf" and v counts hundredths (2.5 is [k |-> "fin",           *)
(* v |-> 250]), so that the non-integers the code lets through exist.      *)
(***************************************************************************)
EXTENDS Integers, Sequences, FiniteSets, TLC

(***************************************************************************)
(* JavaScript numbers                                                      *)
(***************************************************************************)
\* hundredths per unit
Scale == 10 * 10

Fin(v) == [k |-> "fin", v |-> v]
Int2Num(i) == Fin(i * Scale)
NaN == [k |-> "nan", v |-> 0]
PosInf == [k |-> "inf", v |-> 0]
NegInf == [k |-> "ninf", v |-> 0]

isNaN(n) == n.k = "nan"
IsInteger(n) == n.k = "fin" /\ n.v % Scale = 0

\* a < b on numbers (false whenever one side is NaN)
NumLt(a, b) ==
  IF isNaN(a) \/ isNaN(b) THEN FALSE
  ELSE IF a.k = "ninf" THEN b.k # "ninf"
  ELSE IF a.k = "inf" THEN FALSE
  ELSE IF b.k = "inf" THEN TRUE
  ELSE IF b.k = "ninf" THEN FALSE
  ELSE a.v < b.v

NumNeg(a) ==
  IF a.k = "inf" THEN NegInf
  ELSE IF a.k = "ninf" THEN PosInf
  ELSE IF a.k = "nan" THEN NaN
  ELSE Fin(0 - a.v)

\* a + b
NumAdd(a, b) ==
  IF isNaN(a) \/ isNaN(b) THEN NaN
  ELSE IF a.k = "fin" /\ b.k = "fin" THEN Fin(a.v + b.v)
  ELSE IF a.k = "fin" THEN b
  ELSE IF b.k = "fin" THEN a
  ELSE IF a.k = b.k THEN a
  ELSE NaN

NumSub(a, b) == NumAdd(a, NumNeg(b))

Sign(a) ==
  IF a.k = "inf" THEN 1
  ELSE IF a.k = "ninf" THEN -1
  ELSE IF a.v > 0 THEN 1
  ELSE IF a.v < 0 THEN -1
  ELSE 0

\* a * b; finite operands carry at most one decimal, so the product is exact
NumMul(a, b) ==
  IF isNaN(a) \/ isNaN(b) THEN NaN
  ELSE IF a.k = "fin" /\ b.k = "fin" THEN Fin((a.v * b.v) \div Scale)
  ELSE IF Sign(a) * Sign(b) = 0 THEN NaN
  ELSE IF Sign(a) * Sign(b) > 0 THEN PosInf
  ELSE NegInf

\* Math.min(a, b)
MathMin(a, b) ==
  IF isNaN(a) \/ isNaN(b) THEN NaN
  ELSE IF NumLt(b, a) THEN b
  ELSE a

(***************************************************************************)
(* Strings as character sequences                                          *)
(***************************************************************************)
Digits == <<"0", "1", "2", "3", "4", "5", "6", "7", "8", "9">>

IsDigit(c) == \E i \in 1..10 : Digits[i] = c
DigitVal(c) == (CHOOSE i \in 1..10 : Digits[i] = c) - 1

RECURSIVE Str(_)
Str(cs) == IF cs = <<>> THEN "" ELSE Head(cs) \o Str(Tail(cs))

startsWith(cs, c) == Len(cs) > 0 /\ cs[1] = c

RECURSIVE NatChars(_)
NatChars(i) ==
  IF i < 10 THEN <<Digits[i + 1]>>
  ELSE NatChars(i \div 10) \o <<Digits[(i % 10) + 1]>>

FracChars(h) ==
  IF h = 0 THEN <<>>
  ELSE IF h % 10 = 0 THEN <<".", Digits[(h \div 10) + 1]>>
  ELSE <<".", Digits[(h \div 10) + 1], Digits[(h % 10) + 1]>>

\* String(n) for a number n
NumChars(n) ==
  IF n.k = "nan" THEN <<"N", "a", "N">>
  ELSE IF n.k = "inf" THEN <<"I", "n", "f", "i", "n", "i", "t", "y">>
  ELSE IF n.k = "ninf" THEN <<"-", "I", "n", "f", "i", "n", "i", "t", "y">>
  ELSE LET a == IF n.v < 0 THEN 0 - n.v ELSE n.v
           body == NatChars(a \div Scale) \o FracChars(a % Scale)
       IN IF n.v < 0 THEN <<"-">> \o body ELSE body

NumStr(n) == Str(NumChars(n))

\* the longest prefix of cs made of digits
RECURSIVE DigitPrefix(_)
DigitPrefix(cs) ==
  IF cs # <<>> /\ IsDigit(Head(cs)) THEN <<Head(cs)>> \o DigitPrefix(Tail(cs))
  ELSE <<>>

RECURSIVE DigitsVal(_, _)
DigitsVal(cs, acc) ==
  IF cs = <<>> THEN acc ELSE DigitsVal(Tail(cs), acc * 10 + DigitVal(Head(cs)))

Drop(cs, n) == SubSeq(cs, n + 1, Len(cs))

HasSign(cs) == cs # <<>> /\ Head(cs) \in {"-", "+"}
Unsigned(cs) == IF HasSign(cs) THEN Tail(cs) ELSE cs
Signed(cs, n) == IF cs # <<>> /\ Head(cs) = "-" THEN NumNeg(n) ELSE n

\* parseInt(cs, 10): an optional sign, then the leading digits; NaN without any
parseInt(cs) ==
  LET ds == DigitPrefix(Unsigned(cs))
  IN IF ds = <<>> THEN NaN ELSE Signed(cs, Int2Num(DigitsVal(ds, 0)))

\* Number(cs) for a string: the whole string must be a decimal literal
\* (digits, at most two of them after a point), "Infinity", or empty (0)
Number(cs) ==
  LET u == Unsigned(cs)
      ip == DigitPrefix(u)
      rest == Drop(u, Len(ip))
      fp == IF rest # <<>> /\ Head(rest) = "." THEN DigitPrefix(Tail(rest)) ELSE <<>>
      tail == IF rest # <<>> /\ Head(rest) = "." THEN Drop(rest, 1 + Len(fp)) ELSE rest
      frac == IF Len(fp) = 0 THEN 0
              ELSE IF Len(fp) = 1 THEN 10 * DigitVal(fp[1])
              ELSE 10 * DigitVal(fp[1]) + DigitVal(fp[2])
  IN IF cs = <<>> THEN Int2Num(0)
     ELSE IF u = <<"I", "n", "f", "i", "n", "i", "t", "y">> THEN Signed(cs, PosInf)
     ELSE IF tail # <<>> \/ (ip = <<>> /\ fp = <<>>) \/ Len(fp) > 2 THEN NaN
     ELSE Signed(cs, Fin(DigitsVal(ip, 0) * Scale + frac))

(***************************************************************************)
(* JavaScript values of an argument bag: undefined, a string, a number, or *)
(* the boolean true (a value the schemas' string|number unions reject)     *)
(***************************************************************************)
Undef == [t |-> "undefined", s |-> <<>>, n |-> NaN]
StrV(cs) == [t |-> "string", s |-> cs, n |-> NaN]
NumV(n) == [t |-> "number", s |-> <<>>, n |-> n]
True == [t |-> "boolean", s |-> <<>>, n |-> NaN]

\* the falsy values are undefined, "", 0 and NaN
Truthy(v) ==
  IF v.t = "undefined" THEN FALSE
  ELSE IF v.t = "string" THEN v.s # <<>>
  ELSE IF v.t = "number" THEN ~(isNaN(v.n) \/ v.n = Int2Num(0))
  ELSE TRUE

\* v || d
OrElse(v, d) == IF Truthy(v) THEN v ELSE d

\* String(v)
ToChars(v) ==
  IF v.t = "string" THEN v.s
  ELSE IF v.t = "number" THEN NumChars(v.n)
  ELSE IF v.t = "boolean" THEN <<"t", "r", "u", "e">>
  ELSE <<"u", "n", "d", "e", "f", "i", "n", "e", "d">>

\* Number(v) for a string or a number
ToNumber(v) == IF v.t = "string" THEN Number(v.s) ELSE v.n

\* z.union([z.string(), z.number()]).optional() accepts v
IsStrOrNumOpt(v) == v.t \in {"undefined", "string", "number"}

(***************************************************************************)
(* Argument bags and normalized parameters                                 *)
(***************************************************************************)
NoNum == [k |-> "none", v |-> 0]
NoArgs == [present |-> FALSE, path |-> Undef, limit |-> Undef, page |-> Undef,
           offset |-> Undef, query |-> Undef]
Bag(path, limit, page, offset, query) ==
  [present |-> TRUE, path |-> path, limit |-> limit, page |-> page,
   offset |-> offset, query |-> query]

\* the parameters of one request, or of one normalized query
Params(path, limit, page, offset, query) ==
  [path |-> path, limit |-> limit, page |-> page, offset |-> offset, query |-> query]
NoParams == Params(<<>>, NoNum, NoNum, NoNum, <<>>)

Normalized(p) == [ok |-> TRUE, msg |-> "", p |-> p]
Invalid(msg) == [ok |-> FALSE, msg |-> msg, p |-> NoParams]

\* the message of the ZodError a schema's parse throws for one field
ZodMessage(field, problem) == "ZodError: " \o field \o ": " \o problem

DefaultListLimit == 100
MaxListLimit == 1000
DefaultPage == 1
DefaultLimit == 20
DefaultOffset == 0
DirectDefaultLimit == 5

WithSlash(cs) == IF startsWith(cs, "/") THEN cs ELSE <<"/">> \o cs

\* listPagesSchema.parse(params): the first field that is no string or number
ListSchemaError(a) ==
  IF ~IsStrOrNumOpt(a.path) THEN ZodMessage("path", "Invalid input")
  ELSE IF ~IsStrOrNumOpt(a.limit) THEN ZodMessage("limit", "Invalid input")
  ELSE IF ~IsStrOrNumOpt(a.page) THEN ZodMessage("page", "Invalid input")
  ELSE ""

\* a limit rule that clamps from below instead of falling back to the default
NormLimitClampsLow(v) ==
  LET limit == IF v.t # "undefined" THEN ToNumber(v) ELSE Int2Num(DefaultListLimit)
  IN IF isNaN(limit) THEN Int2Num(DefaultListLimit)
     ELSE IF NumLt(limit, Int2Num(1)) THEN Int2Num(1)
     ELSE IF NumLt(Int2Num(MaxListLimit), limit) THEN Int2Num(MaxListLimit)
     ELSE limit

\* the limit of normalizeParams: the default when absent, unparsable or
\* below 1, the maximum when above it
NormLimit(v) ==
  LET limit == IF v.t # "undefined" THEN ToNumber(v) ELSE Int2Num(DefaultListLimit)
  IN IF isNaN(limit) \/ NumLt(limit, Int2Num(1)) THEN Int2Num(DefaultListLimit)
     ELSE IF NumLt(Int2Num(MaxListLimit), limit) THEN Int2Num(MaxListLimit)
     ELSE limit

NormPage(v) ==
  LET page == IF v.t # "undefined" THEN ToNumber(v) ELSE Int2Num(DefaultPage)
  IN IF isNaN(page) \/ NumLt(page, Int2Num(1)) THEN Int2Num(DefaultPage) ELSE page

\* normalizeParams of tools/list-pages.ts
normalizeParams(a) ==
  IF ~a.present
  THEN Normalized(Params(<<"/">>, Int2Num(DefaultListLimit), Int2Num(DefaultPage), NoNum, <<>>))
  ELSE IF ListSchemaError(a) # "" THEN Invalid(ListSchemaError(a))
  ELSE Normalized(Params(
         WithSlash(IF a.path.t # "undefined" THEN ToChars(a.path) ELSE <<"/">>),
         NormLimit(a.limit), NormPage(a.page), NoNum, <<>>))

\* the parameter handling of recentlyUpdatedPages (no schema parse): a
\* string goes through parseInt, a number is taken as it is
RecentLimit(v) ==
  LET limit == IF v.t = "undefined" THEN Int2Num(DefaultLimit)
               ELSE IF v.t = "string" THEN parseInt(v.s) ELSE v.n
  IN IF isNaN(limit) \/ NumLt(limit, Int2Num(1)) THEN Int2Num(DefaultLimit) ELSE limit

RecentOffset(v) ==
  LET offset == IF v.t = "undefined" THEN Int2Num(DefaultOffset)
                ELSE IF v.t = "string" THEN parseInt(v.s) ELSE v.n
  IN IF isNaN(offset) \/ NumLt(offset, Int2Num(0)) THEN Int2Num(DefaultOffset) ELSE offset

recentParams(a) ==
  IF ~a.present
  THEN Normalized(Params(<<>>, Int2Num(DefaultLimit), NoNum, Int2Num(DefaultOffset), <<>>))
  ELSE Normalized(Params(<<>>, RecentLimit(a.limit), NoNum, RecentOffset(a.offset), <<>>))

\* z.string() on a required field
StringSchemaError(field, v) ==
  IF v.t = "undefined" THEN ZodMessage(field, "Required")
  ELSE IF v.t # "string" THEN ZodMessage(field, "Expected string, received " \o v.t)
  ELSE ""

\* searchPagesSchema.parse(params); a missing bag has no query either
SearchSchemaError(a) ==
  IF StringSchemaError("query", a.query) # "" THEN StringSchemaError("query", a.query)
  ELSE IF ~IsStrOrNumOpt(a.limit) THEN ZodMessage("limit", "Invalid input")
  ELSE IF ~IsStrOrNumOpt(a.offset) THEN ZodMessage("offset", "Invalid input")
  ELSE ""

SearchLimit(v) ==
  LET limit == IF v.t # "undefined" THEN ToNumber(v) ELSE Int2Num(DefaultLimit)
  IN IF isNaN(limit) \/ NumLt(limit, Int2Num(1)) THEN Int2Num(DefaultLimit) ELSE limit

SearchOffset(v) ==
  LET offset == IF v.t # "undefined" THEN ToNumber(v) ELSE Int2Num(DefaultOffset)
  IN IF isNaN(offset) \/ NumLt(offset, Int2Num(0)) THEN Int2Num(DefaultOffset) ELSE offset

searchParams(a) ==
  IF SearchSchemaError(a) # "" THEN Invalid(SearchSchemaError(a))
  ELSE Normalized(Params(<<>>, SearchLimit(a.limit), NoNum, SearchOffset(a.offset), a.query.s))

\* getPageSchema.parse / pageExistsSchema.parse, then the "/" prefix
pathParams(a) ==
  IF StringSchemaError("path", a.path) # "" THEN Invalid(StringSchemaError("path", a.path))
  ELSE Normalized(Params(WithSlash(a.path.s), NoNum, NoNum, NoNum, <<>>))

\* "exists" is the pageExists that reads data.ok, "existsAlt" the one of the
\* same file that reads data.exist
Tools == {"list", "recent", "search", "get", "exists", "existsAlt"}

\* the normalization each tool function runs before its first request
Normalize(tool, a) ==
  IF tool = "list" THEN normalizeParams(a)
  ELSE IF tool = "recent" THEN recentParams(a)
  ELSE IF tool = "search" THEN searchParams(a)
  ELSE pathParams(a)

\* the prefix of the text a tool's outer catch returns
ErrorPrefix(tool) ==
  IF tool = "list" THEN "Error listing pages"
  ELSE IF tool = "recent" THEN "Error listing recently updated pages"
  ELSE IF tool = "search" THEN "Error searching pages"
  ELSE IF tool = "get" THEN "Error getting page"
  ELSE "Error checking page"

(***************************************************************************)
(* Envelopes                                                               *)
(***************************************************************************)
TextBlock(text) == [type |-> "text", text |-> text]
\* a result that carries a second, empty block
ToolResultTwoBlocks(text) ==
  [isError |-> "absent", content |-> <<[type |-> "text", text |-> text],
                                       [type |-> "text", text |-> ""]>>]

\* { content: [{type: 'text', text}] }: no isError field
ToolResult(text) == [isError |-> "absent", content |-> <<TextBlock(text)>>]
\* { isError: true, content: [{type: 'text', text}] }
ErrorResult(text) == [isError |-> "true", content |-> <<TextBlock(text)>>]
NoEnvelope == [isError |-> "absent", content |-> <<>>]

(***************************************************************************)
(* What the remote API can answer                                          *)
(***************************************************************************)
MaxPages == 2
PagePaths == {"/a", "/b"}
PageSeqs == UNION {[1..n -> PagePaths] : n \in 0..MaxPages}
TotalCounts == {Undef} \cup {NumV(Int2Num(i)) : i \in {0, 1, MaxPages + 1}}
Bodies == {"", "hello"}

None == [has |-> FALSE, items |-> <<>>]
Some(items) == [has |-> TRUE, items |-> items]
NoPage == [has |-> FALSE, path |-> "", body |-> ""]
APage(path, body) == [has |-> TRUE, path |-> path, body |-> body]

\* a parsed JSON body: the fields the code reads, each possibly missing
EmptyJson == [pages |-> None, totalCount |-> Undef, data |-> None, page |-> NoPage,
              ok |-> "absent", exist |-> "absent", error |-> ""]

ListJson == {EmptyJson} \cup
  {[EmptyJson EXCEPT !.pages = Some(ps), !.totalCount = t] : ps \in PageSeqs, t \in TotalCounts}
SearchJson == {EmptyJson} \cup
  {[EmptyJson EXCEPT !.data = Some(ps), !.ok = k] : ps \in PageSeqs, k \in {"absent", "true"}}
PageJson == {EmptyJson} \cup
  {[EmptyJson EXCEPT !.page = APage(p, b), !.ok = k] :
     p \in PagePaths, b \in Bodies, k \in {"absent", "true"}}
ExistJson == {[EmptyJson EXCEPT !.ok = k, !.exist = e] :
     k \in {"absent", "true", "false"}, e \in {"absent", "true", "false"}}

JsonOf(tool) ==
  IF tool \in {"list", "recent"} THEN ListJson
  ELSE IF tool = "search" THEN SearchJson
  ELSE IF tool = "get" THEN PageJson
  ELSE ExistJson

\* the outcome of one HTTP request: the 'error' event, or a status with a
\* body that parses as JSON (json) or does not
NetError == [kind |-> "neterr", status |-> 0, parses |-> FALSE, json |-> EmptyJson,
             raw |-> "", msg |-> "connect ECONNREFUSED"]
Http(status, parses, json, raw) ==
  [kind |-> "http", status |-> status, parses |-> parses, json |-> json,
   raw |-> raw, msg |-> ""]
HttpOutcomes(tool) ==
  {NetError, Http(500, FALSE, EmptyJson, "oops"), Http(200, FALSE, EmptyJson, "<html>"),
   Http(201, TRUE, EmptyJson, "{}")}
  \cup {Http(200, TRUE, j, "{..}") : j \in JsonOf(tool)}

(***************************************************************************)
(* Transports                                                              *)
(***************************************************************************)
\* makeNativeHttpRequest resolves with the parsed body
NativeResolves(o) == o.kind = "http" /\ o.status >= 200 /\ o.status < 300 /\ o.parses

\* directGrowiRequest rejects: the 'error' event, or a 200 whose body does not parse
DirectRejects(o) == o.kind = "neterr" \/ (o.status = 200 /\ ~o.parses)

\* the message of the Error the native request of GrowiClient rejects with
CurlRejectMessage(o) ==
  IF o.kind = "neterr" THEN o.msg
  ELSE IF o.status >= 200 /\ o.status < 300 THEN "Failed to parse JSON response: Unexpected token"
  ELSE "HTTP Error: " \o ToString(o.status) \o " - " \o o.raw

(***************************************************************************)
(* Formatting                                                              *)
(***************************************************************************)
\* the item lines in the reverse of the order returned
RECURSIVE PageLinesReversed(_)
PageLinesReversed(ps) ==
  IF ps = <<>> THEN "" ELSE PageLinesReversed(Tail(ps)) \o "- " \o Head(ps) \o "\n"

\* one line "- {path}" per page, in the order returned
RECURSIVE PageLines(_)
PageLines(ps) ==
  IF ps = <<>> THEN "" ELSE "- " \o Head(ps) \o "\n" \o PageLines(Tail(ps))

StartIndex(limit, page) == NumAdd(NumMul(NumSub(page, Int2Num(1)), limit), Int2Num(1))
EndIndex(start, count, total) ==
  MathMin(NumSub(NumAdd(start, Int2Num(count)), Int2Num(1)), total)
ListOffset(limit, page) == NumMul(NumSub(page, Int2Num(1)), limit)

\* formatResultText of tools/list-pages.ts; total is undefined or a number
formatResultText(path, pages, total, limit, page) ==
  IF ~pages.has \/ Len(pages.items) = 0 THEN "No pages found under path: " \o Str(path)
  ELSE LET n == Len(pages.items)
           startIndex == StartIndex(limit, page)
           endIndex == EndIndex(startIndex, n, IF total.t = "undefined" THEN Int2Num(n) ELSE total.n)
       IN "Found " \o ToString(n) \o " pages under path: " \o Str(path) \o "\n\n"
          \o PageLines(pages.items)
          \o (IF total.t # "undefined"
              THEN "\nShowing " \o NumStr(startIndex) \o "-" \o NumStr(endIndex) \o " of "
                   \o NumStr(total.n) \o " total pages"
              ELSE "")

\* the text directGrowiRequest builds from a 200 response
DirectText(path, limit, page, json) ==
  LET pagesCount == IF json.pages.has THEN Len(json.pages.items) ELSE 0
      totalCount == IF Truthy(json.totalCount) THEN json.totalCount.n ELSE Int2Num(0)
      startIndex == StartIndex(limit, page)
      endIndex == EndIndex(startIndex, pagesCount, totalCount)
  IN IF pagesCount = 0 THEN "No pages found under path: " \o Str(path)
     ELSE "Found " \o ToString(pagesCount) \o " pages under path: " \o Str(path) \o "\n\n"
          \o PageLines(json.pages.items)
          \o "\nShowing " \o NumStr(startIndex) \o "-" \o NumStr(endIndex) \o " of "
          \o NumStr(totalCount) \o " total pages"

\* the text directGrowiRequest resolves with for a status other than 200
DirectHttpErrorText(path, limit, page, o) ==
  "Error listing pages (path: " \o Str(path) \o ", offset: "
  \o NumStr(ListOffset(limit, page)) \o "): HTTP Error (" \o ToString(o.status) \o ") - " \o o.raw

\* the envelope directGrowiRequest resolves with
DirectResult(p, o) ==
  IF o.status = 200 THEN ToolResult(DirectText(p.path, p.limit, p.page, o.json))
  ELSE ToolResult(DirectHttpErrorText(p.path, p.limit, p.page, o))

\* does the tool return from its primary branch with this parsed body?
PrimaryUsable(tool, json) ==
  IF tool \in {"list", "recent"} THEN json.pages.has
  ELSE IF tool = "search" THEN json.data.has
  ELSE IF tool = "get" THEN json.page.has
  ELSE IF tool = "existsAlt" THEN json.exist # "absent"
  ELSE json.ok # "absent"

RecentPrimaryText(p, json) ==
  LET n == Len(json.pages.items)
  IN IF n = 0 THEN "No recently updated pages found"
     ELSE "Found " \o ToString(n) \o " recently updated pages\n\n"
          \o PageLines(json.pages.items)
          \o "\nShowing " \o NumStr(NumAdd(p.offset, Int2Num(1))) \o "-"
          \o NumStr(NumAdd(p.offset, Int2Num(n)))
          \o (IF json.totalCount.t = "number"
              THEN " of " \o NumStr(json.totalCount.n) \o " total pages" ELSE "")

SearchText(query, items) ==
  "Found " \o ToString(Len(items)) \o " pages for query: " \o Str(query) \o "\n\n"
  \o PageLines(items)

\* a page text that keeps only the first characters of the body
PageTextPreview(page) ==
  "Page: " \o page.path \o "\n\n" \o
    (IF Len(page.body) > 3 THEN SubSeq(page.body, 1, 3) ELSE page.body)

\* the text of getPage: the header and the whole revision body
PageText(page) == "Page: " \o page.path \o "\n\n" \o page.body

ExistsText(path, exists) ==
  IF exists THEN "Page exists: " \o Str(path) ELSE "Page not found: " \o Str(path)

\* the text of the primary branch of each tool
PrimaryText(tool, p, json) ==
  IF tool = "list" THEN formatResultText(p.path, json.pages, json.totalCount, p.limit, p.page)
  ELSE IF tool = "recent" THEN RecentPrimaryText(p, json)
  ELSE IF tool = "search" THEN SearchText(p.query, json.data.items)
  ELSE IF tool = "get" THEN PageText(json.page)
  ELSE IF tool = "existsAlt" THEN ExistsText(p.path, json.exist = "true")
  ELSE ExistsText(p.path, json.ok = "true")

(***************************************************************************)
(* The fallback: GrowiClient                                               *)
(***************************************************************************)
NoMeta == [has |-> FALSE, total |-> NoNum, offset |-> NoNum]
Meta(total, offset) == [has |-> TRUE, total |-> total, offset |-> offset]

\* what a client method resolves with: the fields the tools read
Response(ok, error, pages, meta, data, page, exists) ==
  [ok |-> ok, error |-> error, pages |-> pages, meta |-> meta, data |-> data,
   page |-> page, exists |-> exists]
Failure(error) == Response(FALSE, error, None, NoMeta, None, NoPage, FALSE)

\* how a client call settled; cls is how its request ended (see Classify),
\* "remote" when the remote API itself reported the error
Returned(resp, cls) ==
  [called |-> TRUE, threw |-> FALSE, msg |-> "", resp |-> resp, cls |-> cls]
Thrown(msg, cls) ==
  [called |-> TRUE, threw |-> TRUE, msg |-> msg, resp |-> Failure(""), cls |-> cls]
NotCalled ==
  [called |-> FALSE, threw |-> FALSE, msg |-> "", resp |-> Failure(""), cls |-> "none"]

\* how a request ended: the 'error' event, a status outside [200,300), a body
\* that does not parse, or a parsed body
Classify(o) ==
  IF o.kind = "neterr" THEN "neterr"
  ELSE IF o.status < 200 \/ o.status >= 300 THEN "status"
  ELSE IF ~o.parses THEN "parse"
  ELSE "json"

\* GrowiClient.listPages over its one native request: never throws
GrowiClientListPages(p, o) ==
  IF NativeResolves(o)
  THEN Returned(Response(TRUE, "",
         Some(o.json.pages.items),
         Meta(IF Truthy(o.json.totalCount) THEN o.json.totalCount.n ELSE Int2Num(0),
              ListOffset(p.limit, p.page)),
         None, NoPage, FALSE), Classify(o))
  ELSE Returned(Failure("Error: " \o CurlRejectMessage(o)), Classify(o))

\* the axios methods (searchPages, getPage): the body of a 2xx answer is
\* returned as it is, an error answer becomes {ok: false}, anything else is rethrown
AxiosMessage(o) ==
  IF o.kind = "neterr" THEN o.msg
  ELSE "Request failed with status code " \o ToString(o.status)

GrowiClientAxios(o) ==
  IF o.kind = "neterr" THEN Thrown(AxiosMessage(o), Classify(o))
  ELSE IF o.status >= 200 /\ o.status < 300
  THEN Returned(Response(o.json.ok = "true", o.json.error, None, NoMeta, o.json.data,
                         o.json.page, FALSE), Classify(o))
  ELSE Returned(Failure(IF o.json.error # "" THEN o.json.error ELSE AxiosMessage(o)),
                Classify(o))

\* getRecentlyUpdatedPages and pageExists: a GrowiPagesResponse, resp. a
\* GrowiPageExistResponse, a failure, or an exception
RecentResponses(p) ==
  {Returned(Response(TRUE, "", Some(ps), m, None, NoPage, FALSE), "json") :
     ps \in PageSeqs,
     m \in {NoMeta} \cup {Meta(t.n, p.offset) : t \in TotalCounts \ {Undef}}}
  \cup {Returned(Failure("server error"), "remote"), Returned(Failure(""), "remote"),
        Thrown("boom", "neterr")}

ExistsResponses ==
  {Returned(Response(TRUE, "", None, NoMeta, None, NoPage, e), "json") : e \in BOOLEAN}
  \cup {Returned(Failure("server error"), "remote"), Returned(Failure(""), "remote"),
        Thrown("boom", "neterr")}

\* what a client object handed to a tool function by its caller (the tests'
\* mockClient: baseURL and apiToken undefined) resolves or rejects with
StubResponses(tool, p) ==
  IF tool = "list"
  THEN {Returned(Response(TRUE, "", pg, m, None, NoPage, FALSE), "json") :
          pg \in {None} \cup {Some(ps) : ps \in PageSeqs},
          m \in {NoMeta} \cup {Meta(t.n, ListOffset(p.limit, p.page)) :
                                  t \in TotalCounts \ {Undef}}}
       \cup {Returned(Failure("server error"), "remote"), Returned(Failure(""), "remote"),
             Thrown("boom", "neterr")}
  ELSE IF tool = "recent" THEN RecentResponses(p)
  ELSE IF tool \in {"exists", "existsAlt"} THEN ExistsResponses
  ELSE {Returned(Response(TRUE, "", None, NoMeta,
                          IF tool = "search" THEN Some(ps) ELSE None,
                          IF tool = "get" THEN APage(ps[1], b) ELSE NoPage, FALSE), "json") :
          ps \in PageSeqs \ {<<>>}, b \in Bodies}
       \cup {Returned(Failure("server error"), "remote"), Thrown("boom", "neterr")}

\* the clients a tool function runs with: the GrowiClient the server
\* constructs, or an object its caller hands in
ClientKinds == {"real", "stub"}

\* every way the fallback call of a tool can settle
ClientOutcomes(tool, p, kind) ==
  IF kind = "stub" THEN StubResponses(tool, p)
  ELSE IF tool = "list" THEN {GrowiClientListPages(p, o) : o \in HttpOutcomes("list")}
  ELSE IF tool = "recent" THEN RecentResponses(p)
  ELSE IF tool \in {"exists", "existsAlt"} THEN ExistsResponses
  ELSE {GrowiClientAxios(o) : o \in HttpOutcomes(tool)}

OrUnknown(error) == IF error # "" THEN error ELSE "Unknown error"

RecentFallbackText(resp) ==
  LET n == Len(resp.pages.items)
  IN IF ~resp.pages.has \/ n = 0 THEN "No recently updated pages found"
     ELSE "Found " \o ToString(n) \o " recently updated pages\n\n"
          \o PageLines(resp.pages.items)
          \o (IF resp.meta.has
              THEN "\nShowing " \o NumStr(NumAdd(resp.meta.offset, Int2Num(1))) \o "-"
                   \o NumStr(NumAdd(resp.meta.offset, Int2Num(n)))
                   \o " of " \o NumStr(resp.meta.total) \o " total pages"
              ELSE "")

\* an error text of listPages that leaves the query's context out
ListErrorTextBare(p, error) == "Error listing pages: " \o OrUnknown(error)

\* the text listPages returns when the client's response has ok: false
ListErrorText(p, error) ==
  "Error listing pages (path: " \o Str(p.path) \o ", offset: "
  \o NumStr(ListOffset(p.limit, p.page)) \o "): " \o OrUnknown(error)

\* the text a tool builds from the fallback's response
FallbackText(tool, p, resp) ==
  IF tool = "list"
  THEN IF ~resp.ok
       THEN ListErrorText(p, resp.error)
       ELSE formatResultText(p.path, resp.pages,
              IF resp.meta.has THEN NumV(resp.meta.total) ELSE Undef, p.limit, p.page)
  ELSE IF ~resp.ok THEN ErrorPrefix(tool) \o ": " \o OrUnknown(resp.error)
  ELSE IF tool = "recent" THEN RecentFallbackText(resp)
  ELSE IF tool = "search"
  THEN IF resp.data.has THEN SearchText(p.query, resp.data.items)
       ELSE ErrorPrefix(tool) \o ": Cannot read properties of undefined (reading 'length')"
  ELSE IF tool = "get"
  THEN IF resp.page.has THEN PageText(resp.page)
       ELSE ErrorPrefix(tool) \o ": Cannot read properties of undefined (reading 'path')"
  ELSE ExistsText(p.path, resp.exists)

\* a tool that returns the message of a throwing client call without its prefix
FallbackResultRaw(tool, p, c) ==
  IF c.threw THEN ToolResult(c.msg)
  ELSE ToolResult(FallbackText(tool, p, c.resp))

\* the envelope a tool returns once its fallback call has settled
FallbackResult(tool, p, c) ==
  IF c.threw THEN ToolResult(ErrorPrefix(tool) \o ": " \o c.msg)
  ELSE ToolResult(FallbackText(tool, p, c.resp))

(***************************************************************************)
(* Inputs                                                                  *)
(***************************************************************************)
ListTool == "mcp_growi_growi_list_pages"
RecentTool == "mcp_growi_growi_recently_updated_pages"
GetPageTool == "mcp_growi_growi_get_page"
SearchTool == "mcp_growi_growi_search_pages"
ExistsTool == "mcp_growi_growi_page_exists"
\* the names the switch of the tools/call handler has a case for
RegisteredTools == {ListTool, RecentTool}
\* the names the tools/list handler answers with
AdvertisedTools == {ListTool, RecentTool}
\* the tools the README documents
CatalogTools == {ListTool, RecentTool, GetPageTool, SearchTool, ExistsTool}
\* the names that reach the default case
OtherNames == {GetPageTool, SearchTool, ExistsTool, "growi_list_pages"}

PathValues == {Undef, StrV(<<>>), StrV(<<"a">>), StrV(<<"/", "a">>), NumV(Int2Num(5)), True}
LimitValues ==
  {Undef, StrV(<<"2">>), StrV(<<"-", "1">>), StrV(<<"x">>), StrV(<<"2", "x">>),
   StrV(<<"2", ".", "5">>), StrV(<<"1", "0", "0", "1">>), NumV(Fin(250))}
PageValues ==
  {Undef, StrV(<<"2">>), StrV(<<"0">>), StrV(<<"1", ".", "5">>),
   StrV(<<"I", "n", "f", "i", "n", "i", "t", "y">>)}
OffsetValues ==
  {Undef, StrV(<<"1">>), StrV(<<"-", "1">>), StrV(<<"1", ".", "5">>), NumV(Fin(150))}
QueryValues == {Undef, StrV(<<>>), StrV(<<"q">>)}

ListBags == {NoArgs} \cup
  {Bag(pa, l, pg, Undef, Undef) : pa \in PathValues, l \in LimitValues, pg \in PageValues}
RecentBags == {NoArgs} \cup
  {Bag(Undef, l, Undef, of, Undef) : l \in LimitValues, of \in OffsetValues}
SearchBags == {NoArgs} \cup
  {Bag(Undef, l, Undef, of, q) : l \in LimitValues, of \in OffsetValues, q \in QueryValues}
PathBags == {NoArgs} \cup {Bag(pa, Undef, Undef, Undef, Undef) : pa \in PathValues}
OtherBags == {NoArgs, Bag(StrV(<<"/", "a">>), Undef, Undef, Undef, StrV(<<"q">>))}

\* the bags a caller of a tool function can pass; recentlyUpdatedPages has
\* no schema parse, its caller passes strings and numbers only
ToolBags(t) ==
  IF t = "list" THEN ListBags
  ELSE IF t = "recent" THEN RecentBags
  ELSE IF t = "search" THEN SearchBags
  ELSE PathBags

(***************************************************************************)
(* State                                                                   *)
(***************************************************************************)
VARIABLES
  apiUrl,    \* process.env.GROWI_API_URL as the process found it
  apiToken,  \* process.env.GROWI_API_TOKEN as the process found it
  exitCode,  \* the status the process exited with (read when pc = "exited")
  pc,        \* start, exited, or where the invocation is: idle, direct, native, client, done
  entry,     \* "dispatch": a tools/call request; "tool": a call of a tool function
  name,      \* the tool name of the tools/call request
  args,      \* the argument bag of the request
  tool,      \* the tool function that is running, or "none"
  client,    \* the client the tool function was given: "real", "stub" or "none"
  payload,   \* the parsed body the direct or native request resolved with
  seen,      \* an earlier listPages call kept for comparison (SpecTwice only)
  norm,      \* the result of the tool's normalization
  sent,      \* the requests sent to the remote API, in order
  fallback,  \* how the fallback call settled
  envelope,  \* what the invocation returned
  answers,   \* what the remote API answered to the direct and native requests
  others     \* the invocations that are suspended while this one runs

vars == <<apiUrl, apiToken, exitCode, pc, entry, name, args, tool, client, payload, seen,
          norm, sent, fallback, envelope, answers, others>>

\* what the top-level code of index.ts sets up and no handler assigns
startup == <<apiUrl, apiToken, exitCode>>

\* an environment variable: unset, empty, or set to some text
EnvValues == {Undef, StrV(<<>>), StrV(<<"x">>)}

\* process.exit(1)
FatalExit == 1

NotNormalized == Invalid("")

\* the invocations the host has in flight at a time
MaxCalls == 2

\* the bindings of an invocation that has not begun
IdleFrame ==
  [pc |-> "idle", entry |-> "none", name |-> "", args |-> NoArgs, tool |-> "none",
   client |-> "none", payload |-> EmptyJson, norm |-> NotNormalized, sent |-> <<>>,
   fallback |-> NotCalled, envelope |-> NoEnvelope, answers |-> <<>>]

\* no earlier call is kept
NoneSeen == [has |-> FALSE, p |-> NoParams, remotes |-> {}, text |-> ""]

Attempt(via, t, p) == [via |-> via, tool |-> t, p |-> p, outcome |-> "pending"]

Settle(s, outcome) == [s EXCEPT ![Len(s)].outcome = outcome]

Init ==
  /\ apiUrl \in EnvValues
  /\ apiToken \in EnvValues
  /\ exitCode = 0
  /\ pc = "start"
  /\ entry = "none"
  /\ name = ""
  /\ args = NoArgs
  /\ tool = "none"
  /\ client = "none"
  /\ payload = EmptyJson
  /\ seen = NoneSeen
  /\ norm = NotNormalized
  /\ sent = <<>>
  /\ fallback = NotCalled
  /\ envelope = NoEnvelope
  /\ answers = <<>>
  /\ others = [i \in 1..(MaxCalls - 1) |-> IdleFrame]

\* a configuration check that passes as soon as one of the two values is there
ConfigMissingBoth(u, t) == ~Truthy(u) /\ ~Truthy(t)

\* !apiUrl || !apiToken
ConfigMissing(u, t) == ~Truthy(u) \/ ~Truthy(t)

\* the top-level code of index.ts: without both values the process exits
\* with status 1, with them the client and the server are set up and the
\* handlers can run
Startup ==
  /\ pc = "start"
  /\ UNCHANGED <<apiUrl, apiToken, entry, name, args, tool, client, payload, seen, norm, sent,
                 fallback, envelope, answers, others>>
  /\ IF ConfigMissing(apiUrl, apiToken)
     THEN pc' = "exited" /\ exitCode' = FatalExit
     ELSE pc' = "idle" /\ exitCode' = exitCode

\* a tool function runs up to its first await: it normalizes and sends the
\* native request (a client without baseURL and apiToken: it calls the
\* client at once), or its outer catch returns the validation error
ToolStarts(t, a, s, k) ==
  LET nz == Normalize(t, a)
  IN /\ tool' = t
     /\ client' = k
     /\ payload' = EmptyJson
     /\ norm' = nz
     /\ fallback' = NotCalled
     /\ IF nz.ok
        THEN /\ sent' = Append(s, Attempt(IF k = "real" THEN "native" ELSE "client", t, nz.p))
             /\ pc' = IF k = "real" THEN "native" ELSE "client"
             /\ envelope' = NoEnvelope
        ELSE /\ sent' = s
             /\ pc' = "done"
             /\ envelope' = ToolResult(ErrorPrefix(t) \o ": " \o nz.msg)

\* the handler returns without running a tool function
Returns(e) ==
  /\ tool' = "none"
  /\ client' = "none"
  /\ payload' = EmptyJson
  /\ norm' = NotNormalized
  /\ fallback' = NotCalled
  /\ sent' = <<>>
  /\ pc' = "done"
  /\ envelope' = e

\* path, limit and page as the list-pages case computes them
DirectParams(a) ==
  Params(ToChars(OrElse(a.path, StrV(<<"/">>))),
         parseInt(ToChars(OrElse(a.limit, StrV(NatChars(DirectDefaultLimit))))),
         parseInt(ToChars(OrElse(a.page, StrV(NatChars(DefaultPage))))),
         NoNum, <<>>)

\* the bag the recently-updated case passes to recentlyUpdatedPages
RecentCallBag(a) ==
  Bag(Undef,
      NumV(parseInt(ToChars(OrElse(a.limit, StrV(NatChars(DefaultLimit)))))),
      Undef,
      NumV(parseInt(ToChars(OrElse(a.offset, StrV(NatChars(DefaultOffset)))))),
      Undef)

\* tools/call, case 'mcp_growi_growi_list_pages': the direct request is
\* sent; a missing bag throws at args.path and the catch calls listPages
CallListPages(a) ==
  /\ pc = "idle"
  /\ entry' = "dispatch" /\ name' = ListTool /\ args' = a
  /\ UNCHANGED <<seen, startup, others>>
  /\ answers' = <<>>
  /\ IF a.present
     THEN /\ tool' = "none"
          /\ client' = "none"
          /\ payload' = EmptyJson
          /\ norm' = NotNormalized
          /\ fallback' = NotCalled
          /\ sent' = <<Attempt("direct", "list", DirectParams(a))>>
          /\ pc' = "direct"
          /\ envelope' = NoEnvelope
     ELSE ToolStarts("list", a, <<>>, "real")

\* directGrowiRequest settles: it resolves with an envelope the handler
\* returns, or it rejects and the handler calls listPages with the raw bag
DirectSettles(o) ==
  /\ pc = "direct"
  /\ UNCHANGED <<entry, name, args, seen, startup, others>>
  /\ answers' = Append(answers, o)
  /\ IF DirectRejects(o)
     THEN ToolStarts("list", args, Settle(sent, Classify(o)), "real")
     ELSE /\ sent' = Settle(sent, Classify(o))
          /\ envelope' = DirectResult(sent[1].p, o)
          /\ payload' = o.json
          /\ pc' = "done"
          /\ UNCHANGED <<tool, client, norm, fallback>>

\* tools/call, case 'mcp_growi_growi_recently_updated_pages'
CallRecentlyUpdatedPages(a) ==
  /\ pc = "idle"
  /\ entry' = "dispatch" /\ name' = RecentTool /\ args' = a
  /\ UNCHANGED <<seen, startup, others>>
  /\ answers' = <<>>
  /\ IF a.present
     THEN ToolStarts("recent", RecentCallBag(a), <<>>, "real")
     ELSE Returns(ErrorResult(
            "Error executing tool: Cannot read properties of undefined (reading 'limit')"))

\* an unknown-tool answer without the error flag
UnknownToolUnflagged(n) == ToolResult("Unknown tool: " \o n)

\* the envelope of the default case
UnknownToolResult(n) == ErrorResult("Unknown tool: " \o n)

\* tools/call, default case
CallUnknownTool(n, a) ==
  /\ pc = "idle"
  /\ n \notin RegisteredTools
  /\ entry' = "dispatch" /\ name' = n /\ args' = a
  /\ UNCHANGED <<seen, startup, others>>
  /\ answers' = <<>>
  /\ Returns(UnknownToolResult(n))

\* a tool function called by its exported name, as the tests do
CallTool(t, a, k) ==
  /\ pc = "idle"
  /\ entry' = "tool" /\ name' = "" /\ args' = a
  /\ UNCHANGED <<seen, startup, others>>
  /\ answers' = <<>>
  /\ ToolStarts(t, a, <<>>, k)

\* the native request of a tool settles: the tool returns from its primary
\* branch, or (rejection, or a body without the field it reads) calls the client
NativeSettles(o) ==
  /\ pc = "native"
  /\ UNCHANGED <<entry, name, args, tool, client, seen, norm, fallback, startup, others>>
  /\ answers' = Append(answers, o)
  /\ IF NativeResolves(o) /\ PrimaryUsable(tool, o.json)
     THEN /\ sent' = Settle(sent, Classify(o))
          /\ envelope' = ToolResult(PrimaryText(tool, norm.p, o.json))
          /\ payload' = o.json
          /\ pc' = "done"
     ELSE /\ sent' = Append(Settle(sent, Classify(o)), Attempt("client", tool, norm.p))
          /\ pc' = "client"
          /\ UNCHANGED <<envelope, payload>>

\* the client call settles and the tool returns
ClientSettles(c) ==
  /\ pc = "client"
  /\ UNCHANGED <<entry, name, args, tool, client, payload, seen, norm, startup, answers,
                 others>>
  /\ sent' = Settle(sent, c.cls)
  /\ fallback' = c
  /\ envelope' = FallbackResult(tool, norm.p, c)
  /\ pc' = "done"

\* the host has the envelope; the invocation leaves no state behind
Responds ==
  /\ pc = "done"
  /\ UNCHANGED <<seen, startup, others>>
  /\ answers' = <<>>
  /\ pc' = "idle"
  /\ entry' = "none"
  /\ name' = ""
  /\ args' = NoArgs
  /\ tool' = "none"
  /\ client' = "none"
  /\ payload' = EmptyJson
  /\ norm' = NotNormalized
  /\ sent' = <<>>
  /\ fallback' = NotCalled
  /\ envelope' = NoEnvelope

Next ==
  \/ Startup
  \/ \E a \in ListBags : CallListPages(a)
  \/ \E o \in HttpOutcomes("list") : DirectSettles(o)
  \/ \E a \in RecentBags : CallRecentlyUpdatedPages(a)
  \/ \E n \in OtherNames, a \in OtherBags : CallUnknownTool(n, a)
  \/ \E t \in Tools, k \in ClientKinds : \E a \in ToolBags(t) : CallTool(t, a, k)
  \/ \E o \in HttpOutcomes(tool) : NativeSettles(o)
  \/ \E c \in ClientOutcomes(tool, norm.p, client) : ClientSettles(c)
  \/ Responds

Spec == Init /\ [][Next]_vars

(***************************************************************************)
(* Properties                                                              *)
(***************************************************************************)
\* the text of the envelope an invocation returned
Text == envelope.content[1].text

\* the ways a request fails in transport: a network error, a status
\* outside [200,300), a body that does not parse
TransportFailures == {"neterr", "status", "parse"}

\* C1: a tools/call request whose name has no case in the dispatcher is
\* answered with isError = true and the one text block "Unknown tool: {name}".
C1_UnknownToolEnvelope ==
  (pc = "done" /\ entry = "dispatch" /\ name \notin RegisteredTools) =>
    envelope = [isError |-> "true",
                content |-> <<[type |-> "text", text |-> "Unknown tool: " \o name]>>]

C1_Witness ==
  /\ pc = "done" /\ entry = "dispatch" /\ name = "growi_list_pages"
  /\ envelope.isError = "true"

\* C2: each of the five catalog tools is advertised by tools/list and a
\* tools/call naming it is never answered as an unknown tool.
C2_CatalogCallable ==
  (pc = "done" /\ entry = "dispatch" /\ name \in CatalogTools) =>
    /\ name \in AdvertisedTools
    /\ Text # "Unknown tool: " \o name

\* C3: when the primary attempt of an invocation fails in transport, the
\* fallback is called exactly once, with the parameters the primary attempt
\* used, and the envelope is formatted from the fallback's result.
C3_FallbackOnceSameParams ==
  (pc = "done" /\ sent # <<>> /\ sent[1].via # "client"
     /\ sent[1].outcome \in TransportFailures) =>
    LET cl == {i \in 1..Len(sent) : sent[i].via = "client"}
    IN /\ Cardinality(cl) = 1
       /\ \A i \in cl : sent[i].p = sent[1].p
       /\ fallback.called
       /\ envelope = FallbackResult(sent[1].tool, sent[1].p, fallback)

\* C4: an invocation sends at most two requests, and at most one of them is
\* a primary attempt.
C4_AtMostTwoRequests ==
  /\ Len(sent) <= 2
  /\ Cardinality({i \in 1..Len(sent) : sent[i].via # "client"}) <= 1

\* C5: when the primary attempt and the fallback both fail in transport, the
\* envelope has isError = true and the text "Error executing tool: {message}".
C5_BothFailIsError ==
  (pc = "done" /\ Len(sent) >= 2
     /\ \A i \in 1..Len(sent) : sent[i].outcome \in TransportFailures) =>
    /\ envelope.isError = "true"
    /\ Text \in {"Error executing tool: " \o m : m \in {fallback.msg, fallback.resp.error}}

\* C6: when the remote API answers list pages with {ok: false, error: E}, the
\* envelope carries no error flag and the one text block
\* "Error listing pages (path: P, offset: (page-1)*limit): E" for the
\* normalized path, limit and page.
C6_ListErrorInBand ==
  (pc = "done" /\ tool = "list" /\ fallback.called /\ ~fallback.threw
     /\ ~fallback.resp.ok /\ fallback.resp.error # "") =>
    /\ envelope.isError # "true"
    /\ envelope.content =
         <<[type |-> "text",
            text |-> "Error listing pages (path: " \o Str(norm.p.path) \o ", offset: "
                     \o NumStr(NumMul(NumSub(norm.p.page, Int2Num(1)), norm.p.limit))
                     \o "): " \o fallback.resp.error]>>

C6_Witness ==
  /\ pc = "done" /\ tool = "list" /\ fallback.called /\ ~fallback.resp.ok
  /\ fallback.resp.error = "server error"
  /\ norm.p.path = <<"/", "a">> /\ norm.p.page = Int2Num(2) /\ norm.p.limit = Int2Num(2)
  /\ envelope.isError = "absent"

\* C7: search pages with an absent or empty query, and get page and page
\* exists with an absent path, end in a validation failure: isError = true
\* and a text naming the problem.
C7_RequiredFieldsRejected ==
  LET noQuery == args.query = Undef \/ args.query = StrV(<<>>)
      noPath == args.path = Undef
      viaTool == entry = "tool" /\ \/ tool = "search" /\ noQuery
                                   \/ tool \in {"get", "exists", "existsAlt"} /\ noPath
      viaCall == entry = "dispatch" /\ \/ name = SearchTool /\ noQuery
                                       \/ name \in {GetPageTool, ExistsTool} /\ noPath
  IN (pc = "done" /\ (viaTool \/ viaCall)) =>
       /\ envelope.isError = "true"
       /\ Text # "Unknown tool: " \o name

\* C8: an invocation that ends in an unknown-tool error or in a validation
\* error has sent no request.
C8_NoRequestOnRejection ==
  LET unknown == entry = "dispatch" /\ name \notin RegisteredTools
      invalid == tool # "none" /\ ~norm.ok
  IN (pc = "done" /\ (unknown \/ invalid)) => sent = <<>>

\* C9: whatever strings and numbers the argument bag holds, every request
\* carries integers within bounds: list pages 1 <= limit <= 1000 and
\* page >= 1, recently updated and search limit >= 1 and offset >= 0.
C9_SentParamsWithinBounds ==
  LET plain == \A v \in {args.path, args.limit, args.page, args.offset, args.query} :
                 v.t \in {"undefined", "string", "number"}
      atLeast(n, i) == IsInteger(n) /\ ~NumLt(n, Int2Num(i))
  IN plain =>
       \A i \in 1..Len(sent) :
         LET p == sent[i].p
         IN IF sent[i].tool = "list"
            THEN /\ atLeast(p.limit, 1) /\ ~NumLt(Int2Num(1000), p.limit)
                 /\ atLeast(p.page, 1)
            ELSE IF sent[i].tool \in {"recent", "search"}
            THEN atLeast(p.limit, 1) /\ atLeast(p.offset, 0)
            ELSE TRUE

\* C10: listPages normalizes a limit that does not parse or is below 1 to
\* 100, a limit above 1000 to 1000, and a page that does not parse or is
\* below 1 to 1; {limit: "-1", page: "0"} gives limit 100 and page 1, and
\* these are the values its requests carry.
C10_ListLimitAndPageRule ==
  (tool = "list" /\ norm.ok /\ args.present) =>
    LET l == ToNumber(args.limit)
        g == ToNumber(args.page)
    IN /\ (args.limit # Undef /\ (isNaN(l) \/ NumLt(l, Int2Num(1))))
            => norm.p.limit = Int2Num(100)
       /\ (args.limit # Undef /\ NumLt(Int2Num(1000), l)) => norm.p.limit = Int2Num(1000)
       /\ (args.page # Undef /\ (isNaN(g) \/ NumLt(g, Int2Num(1))))
            => norm.p.page = Int2Num(1)
       /\ (args.limit = StrV(<<"-", "1">>) /\ args.page = StrV(<<"0">>))
            => (norm.p.limit = Int2Num(100) /\ norm.p.page = Int2Num(1))
       /\ \A i \in 1..Len(sent) : sent[i].via # "direct" => sent[i].p = norm.p

C10_Witness ==
  /\ pc = "done" /\ tool = "list" /\ norm.ok
  /\ args.limit = StrV(<<"-", "1">>) /\ args.page = StrV(<<"0">>)
  /\ Len(sent) > 0 /\ sent[Len(sent)].p.limit = Int2Num(100)

\* C11: a tools/call for list pages or recently updated pages without an
\* argument bag does not fail: every request carries the all-defaults query
\* (list: "/", 100, 1; recent: 20, 0) and the envelope is no error envelope.
C11_MissingBagRunsDefaults ==
  (pc = "done" /\ entry = "dispatch" /\ name \in RegisteredTools /\ ~args.present) =>
    /\ envelope.isError # "true"
    /\ sent # <<>>
    /\ \A i \in 1..Len(sent) :
         IF name = ListTool
         THEN /\ sent[i].p.path = <<"/">>
              /\ sent[i].p.limit = Int2Num(100)
              /\ sent[i].p.page = Int2Num(1)
         ELSE /\ sent[i].p.limit = Int2Num(20)
              /\ sent[i].p.offset = Int2Num(0)

\* C12: a list-pages call through the dispatcher whose bag omits limit and
\* page sends only requests with limit 100 and page 1, and with path "/"
\* when the path is omitted too.
C12_DispatcherListDefaults ==
  (entry = "dispatch" /\ name = ListTool /\ args.present
     /\ args.limit = Undef /\ args.page = Undef) =>
    \A i \in 1..Len(sent) :
      /\ sent[i].p.limit = Int2Num(100)
      /\ sent[i].p.page = Int2Num(1)
      /\ args.path = Undef => sent[i].p.path = <<"/">>

\* C13: for list pages, get page and page exists every request carries a
\* path that starts with "/": the supplied path with one "/" prepended when
\* it does not start with one, unchanged when it does, "/" when it is empty.
C13_PathsStartWithSlash ==
  (args.present /\ args.path.t = "string") =>
    \A i \in 1..Len(sent) :
      sent[i].tool \in {"list", "get", "exists", "existsAlt"} =>
        sent[i].p.path = (IF args.path.s = <<>> THEN <<"/">>
                          ELSE IF args.path.s[1] = "/" THEN args.path.s
                          ELSE <<"/">> \o args.path.s)

\* the request whose answer the envelope was formatted from
Answered == sent[Len(sent)]

\* the pages and the total count of the remote result a list-style text was
\* formatted from: the body of the direct or native request, or the response
\* of the client
ResultPages ==
  IF fallback.called
  THEN [has |-> ~fallback.threw /\ fallback.resp.ok /\ fallback.resp.pages.has,
        items |-> fallback.resp.pages.items,
        total |-> IF fallback.resp.meta.has THEN NumV(fallback.resp.meta.total) ELSE Undef]
  ELSE [has |-> payload.pages.has, items |-> payload.pages.items,
        total |-> payload.totalCount]

\* C14: a list-pages result of N >= 1 pages with a total count T >= N is
\* printed as "Found N pages under path: P", a blank line, one line
\* "- {path}" per page in the order returned, a blank line and
\* "Showing s-e of T total pages", s = (page-1)*limit+1, e = min(s+N-1, T),
\* for the path, limit and page of the request that was answered.
C14_ListTextFormat ==
  (pc = "done" /\ sent # <<>> /\ Answered.tool = "list" /\ ResultPages.has) =>
    LET items == ResultPages.items
        n == Len(items)
        t == ResultPages.total
        q == Answered.p
        lines[i \in 0..n] == IF i = 0 THEN "" ELSE lines[i - 1] \o "- " \o items[i] \o "\n"
        s == NumAdd(NumMul(NumSub(q.page, Int2Num(1)), q.limit), Int2Num(1))
        last == NumSub(NumAdd(s, Int2Num(n)), Int2Num(1))
        e == IF NumLt(t.n, last) THEN t.n ELSE last
    IN (n >= 1 /\ t.t = "number" /\ ~NumLt(t.n, Int2Num(n))) =>
         Text = "Found " \o ToString(n) \o " pages under path: " \o Str(q.path) \o "\n\n"
                \o lines[n] \o "\nShowing " \o NumStr(s) \o "-" \o NumStr(e) \o " of "
                \o NumStr(t.n) \o " total pages"

C14_Witness ==
  /\ pc = "done" /\ tool = "list"
  /\ Text = "Found 2 pages under path: /a\n\n- /b\n- /a\n\nShowing 3-3 of 3 total pages"

\* C15: a non-empty recently-updated result with a total count T is printed
\* with the final line "Showing s-e of T total pages", s = offset+1 and
\* e = min(s + N - 1, T), so that e never exceeds T.
C15_OffsetPaginationCapped ==
  (pc = "done" /\ sent # <<>> /\ Answered.tool = "recent" /\ ResultPages.has) =>
    LET items == ResultPages.items
        n == Len(items)
        t == ResultPages.total
        lines[i \in 0..n] == IF i = 0 THEN "" ELSE lines[i - 1] \o "- " \o items[i] \o "\n"
        s == NumAdd(Answered.p.offset, Int2Num(1))
        last == NumSub(NumAdd(s, Int2Num(n)), Int2Num(1))
        e == IF NumLt(t.n, last) THEN t.n ELSE last
    IN (n >= 1 /\ t.t = "number") =>
         Text = "Found " \o ToString(n) \o " recently updated pages\n\n" \o lines[n]
                \o "\nShowing " \o NumStr(s) \o "-" \o NumStr(e) \o " of "
                \o NumStr(t.n) \o " total pages"

\* C16: an empty result of list pages, recently updated pages or search
\* pages is printed, on the primary and on the fallback path, as the fixed
\* "no results" sentence and never with a "Found ..." header.
C16_EmptyResultSentence ==
  (pc = "done" /\ sent # <<>>) =>
    LET q == Answered.p
        found == IF fallback.called
                 THEN [has |-> ~fallback.threw /\ fallback.resp.ok /\ fallback.resp.data.has,
                       items |-> fallback.resp.data.items]
                 ELSE payload.data
    IN /\ (Answered.tool = "list" /\ ResultPages.has /\ ResultPages.items = <<>>)
            => Text = "No pages found under path: " \o Str(q.path)
       /\ (Answered.tool = "recent" /\ ResultPages.has /\ ResultPages.items = <<>>)
            => Text = "No recently updated pages found"
       /\ (Answered.tool = "search" /\ found.has /\ found.items = <<>>)
            => Text # "Found 0 pages for query: " \o Str(q.query) \o "\n\n"

\* the page a get-page text was formatted from: the page of the native
\* request's body, or the page of the client's response
ResultPage ==
  IF fallback.called
  THEN [fallback.resp.page EXCEPT
          !.has = ~fallback.threw /\ fallback.resp.ok /\ fallback.resp.page.has]
  ELSE payload.page

\* C17: getPage prints a remote page as "Page: {path}", a blank line and the
\* whole body, unchanged and untruncated, so that the text is longer than
\* the body; on the primary and on the fallback path.
C17_GetPageFullBody ==
  (pc = "done" /\ sent # <<>> /\ Answered.tool = "get" /\ ResultPage.has) =>
    /\ envelope.content = <<[type |-> "text",
                             text |-> "Page: " \o ResultPage.path \o "\n\n" \o ResultPage.body]>>
    /\ Len(Text) > Len(ResultPage.body)

C17_Witness ==
  /\ pc = "done" /\ tool = "get" /\ fallback.called
  /\ Text = "Page: /a\n\nhello"

\* C18: when the remote reports whether the page exists (the field exist of
\* the native request's body, or exists of the client's response), pageExists
\* returns the one text block "Page exists: P" or "Page not found: P"
\* accordingly, P being the path of the request.
C18_PageExistsText ==
  (pc = "done" /\ sent # <<>> /\ Answered.tool \in {"exists", "existsAlt"}) =>
    LET P == Str(Answered.p.path)
        says(e) == envelope.content =
                     <<[type |-> "text",
                        text |-> IF e THEN "Page exists: " \o P ELSE "Page not found: " \o P]>>
    IN /\ (~fallback.called /\ payload.exist # "absent") => says(payload.exist = "true")
       /\ (fallback.called /\ ~fallback.threw /\ fallback.resp.ok) => says(fallback.resp.exists)

\* C19: when the primary request of listPages fails and the client succeeds
\* with a payload, the text is the one listPages returns when its primary
\* request succeeds with that payload.
C19_FallbackTextEqualsPrimary ==
  (pc = "done" /\ tool = "list" /\ client = "real" /\ fallback.called
     /\ ~fallback.threw /\ fallback.resp.ok) =>
    \A o \in HttpOutcomes("list") :
      (NativeResolves(o) /\ PrimaryUsable("list", o.json)
         /\ GrowiClientListPages(norm.p, o) = fallback) =>
        Text = PrimaryText("list", norm.p, o.json)

(***************************************************************************)
(* Two listPages calls, one after the other: the first one that was        *)
(* answered from a remote payload is kept in seen and the later ones are   *)
(* compared with it.                                                       *)
(***************************************************************************)
\* two bags with the same normalized parameters
ProbeBags ==
  {Bag(StrV(<<"/", "a">>), Undef, Undef, Undef, Undef),
   Bag(StrV(<<"a">>), Undef, StrV(<<"1">>), Undef, Undef)}

\* the remote payloads the finished listPages call can have been answered
\* from: the body of its native request, or a body the client turns into
\* the response it gave
ListRemotes ==
  IF fallback.called
  THEN {o.json : o \in {h \in HttpOutcomes("list") :
                          NativeResolves(h) /\ GrowiClientListPages(norm.p, h) = fallback}}
  ELSE IF payload.pages.has THEN {payload} ELSE {}

\* the caller keeps the first answered call and goes on
Remembers ==
  /\ pc = "done" /\ tool = "list" /\ ~seen.has /\ ListRemotes # {}
  /\ seen' = [has |-> TRUE, p |-> norm.p, remotes |-> ListRemotes, text |-> Text]
  /\ UNCHANGED <<startup, others>>
  /\ answers' = <<>>
  /\ pc' = "idle"
  /\ entry' = "none"
  /\ name' = ""
  /\ args' = NoArgs
  /\ tool' = "none"
  /\ client' = "none"
  /\ payload' = EmptyJson
  /\ norm' = NotNormalized
  /\ sent' = <<>>
  /\ fallback' = NotCalled
  /\ envelope' = NoEnvelope

NextTwice ==
  \/ Startup
  \/ \E a \in ProbeBags : CallTool("list", a, "real")
  \/ \E o \in HttpOutcomes("list") : NativeSettles(o)
  \/ \E c \in ClientOutcomes("list", norm.p, "real") : ClientSettles(c)
  \/ Remembers
  \/ Responds

SpecTwice == Init /\ [][NextTwice]_vars

\* C20: two listPages calls with the same normalized parameters against the
\* same remote payload return the same text, whichever of the native
\* request and the client answered each of them.
C20_SameCallSameText ==
  (pc = "done" /\ tool = "list" /\ seen.has /\ norm.ok /\ norm.p = seen.p
     /\ ListRemotes \cap seen.remotes # {}) =>
    Text = seen.text

\* C21: every envelope an invocation returns (primary or fallback success,
\* remote error, validation error, transport failure, unknown tool,
\* catch-all) has exactly one content block, and its type is "text".
C21_OneTextBlock ==
  pc = "done" =>
    /\ Len(envelope.content) = 1
    /\ envelope.content[1].type = "text"

C21_Witness ==
  /\ pc = "done" /\ entry = "dispatch" /\ name = ListTool
  /\ fallback.called /\ fallback.resp.ok
  /\ Len(envelope.content) = 1 /\ envelope.content[1].type = "text"

\* C22: an exception raised while a tools/call is handled (reading a field
\* of a missing argument bag, a schema failure in normalization, a throwing
\* fallback call) ends in the envelope isError = true with the one text
\* block "Error executing tool: {message}".
C22_ExceptionsBecomeErrorEnvelope ==
  LET converted(m) ==
        envelope = [isError |-> "true",
                    content |-> <<[type |-> "text", text |-> "Error executing tool: " \o m]>>]
  IN (pc = "done" /\ entry = "dispatch") =>
       /\ (name = ListTool /\ ~args.present)
            => converted("Cannot read properties of undefined (reading 'path')")
       /\ (name = RecentTool /\ ~args.present)
            => converted("Cannot read properties of undefined (reading 'limit')")
       /\ (tool # "none" /\ ~norm.ok) => converted(norm.msg)
       /\ fallback.threw => converted(fallback.msg)

(***************************************************************************)
(* The process under fair scheduling: the top-level code runs to its end,  *)
(* and a request that was sent is eventually answered or fails.  The calls *)
(* are few, every answer of the remote API is there.                       *)
(***************************************************************************)
FairListBags == {NoArgs} \cup ProbeBags
FairRecentBags == {NoArgs, Bag(Undef, StrV(<<"2">>), Undef, StrV(<<"1">>), Undef)}
FairToolBags(t) ==
  IF t \in {"list", "recent"} THEN {NoArgs}
  ELSE {NoArgs, Bag(StrV(<<"a">>), Undef, Undef, Undef, StrV(<<"q">>))}

\* a direct request whose promise is never settled
SettlingWithoutDirect ==
  \/ \E o \in HttpOutcomes(tool) : NativeSettles(o)
  \/ \E c \in ClientOutcomes(tool, norm.p, client) : ClientSettles(c)

\* a pending request settles
Settling ==
  \/ \E o \in HttpOutcomes("list") : DirectSettles(o)
  \/ \E o \in HttpOutcomes(tool) : NativeSettles(o)
  \/ \E c \in ClientOutcomes(tool, norm.p, client) : ClientSettles(c)

NextFair ==
  \/ Startup
  \/ \E a \in FairListBags : CallListPages(a)
  \/ \E a \in FairRecentBags : CallRecentlyUpdatedPages(a)
  \/ \E n \in OtherNames : CallUnknownTool(n, NoArgs)
  \/ \E t \in Tools, k \in ClientKinds : \E a \in FairToolBags(t) : CallTool(t, a, k)
  \/ Settling
  \/ Responds

SpecFair == Init /\ [][NextFair]_vars /\ WF_vars(Startup) /\ WF_vars(Settling)

\* C23: with the base URL or the token unset or empty the process exits
\* with a non-zero status, and it does so before any call is handled and
\* before any request is sent; a call is only ever handled with both set.
C23_ExitsWithoutConfiguration ==
  LET absent(v) == v = Undef \/ v = StrV(<<>>)
      missing == absent(apiUrl) \/ absent(apiToken)
  IN /\ [](missing =>
             /\ pc \in {"start", "exited"}
             /\ entry = "none" /\ sent = <<>> /\ envelope = NoEnvelope
             /\ pc = "exited" => exitCode # 0)
     /\ [](entry # "none" => (~missing /\ pc # "exited"))
     /\ (missing ~> pc = "exited")

C23_Witness ==
  /\ pc = "exited" /\ exitCode = 1
  /\ apiUrl = StrV(<<"x">>) /\ apiToken = StrV(<<>>)

\* C24: a primary request (the dispatcher's direct request, a tool's native
\* request) succeeds exactly when its status is in [200,300) and its body
\* parses: with any other status and with a body that does not parse it
\* raises and the fallback is invoked, and a 2xx answer with a JSON body is
\* not turned into an error.
C24_PrimarySuccessIff2xxJson ==
  LET failed(i) == sent[i].outcome \in {"status", "parse"}
      isErrorText == Len(Text) >= 5 /\ SubSeq(Text, 1, 5) = "Error"
  IN /\ \A i \in 1..Len(sent) :
          (sent[i].via = "native" /\ failed(i)) =>
            (Len(sent) > i /\ sent[i + 1].via = "client")
     /\ (sent # <<>> /\ sent[1].via = "direct" /\ failed(1)) => tool = "list"
     /\ (pc = "done" /\ sent # <<>> /\ sent[1].via = "direct" /\ sent[1].outcome = "json") =>
          (tool = "none" /\ ~isErrorText)

\* C25: in listPages, recentlyUpdatedPages and searchPages alike a limit
\* given as a string is read as a base-10 integer up to its first non-digit
\* ("5" -> 5, "5abc" -> 5, "5.7" -> 5); only a string without leading
\* digits is a parse failure and gives the default.
C25_StringNumbersParsedAsIntegers ==
  (entry = "tool" /\ tool \in {"list", "recent", "search"} /\ norm.ok
     /\ args.present /\ args.limit.t = "string") =>
    LET n == parseInt(args.limit.s)
        default == Int2Num(IF tool = "list" THEN 100 ELSE 20)
        expected == IF isNaN(n) \/ NumLt(n, Int2Num(1)) THEN default
                    ELSE IF tool = "list" /\ NumLt(Int2Num(1000), n) THEN Int2Num(1000)
                    ELSE n
    IN norm.p.limit = expected

\* C26: a tool function does not reject: when its client call throws with
\* message m it returns the one text block "{prefix}: m", the prefix being
\* "Error listing pages", "Error listing recently updated pages", "Error
\* searching pages", "Error getting page" or "Error checking page".
C26_ThrowingFallbackIsReported ==
  (pc = "done" /\ fallback.called /\ fallback.threw) =>
    LET prefix == CASE tool = "list" -> "Error listing pages"
                    [] tool = "recent" -> "Error listing recently updated pages"
                    [] tool = "search" -> "Error searching pages"
                    [] tool = "get" -> "Error getting page"
                    [] tool \in {"exists", "existsAlt"} -> "Error checking page"
    IN envelope.content = <<[type |-> "text", text |-> prefix \o ": " \o fallback.msg]>>

C26_Witness ==
  /\ pc = "done" /\ tool = "search" /\ client = "real"
  /\ Len(sent) = 2 /\ sent[1].outcome = "neterr"
  /\ fallback.threw /\ fallback.msg = "connect ECONNREFUSED"
  /\ Text = "Error searching pages: connect ECONNREFUSED"

\* C27: within an invocation a further request is sent only after the one
\* before it has settled, and only when that one raised (a network error, a
\* status outside [200,300), a body that does not parse); after a 2xx answer
\* with a JSON body, whatever its fields, no fallback request is sent.
C27_FallbackOnlyAfterRaise ==
  \A i \in 2..Len(sent) : sent[i - 1].outcome \in {"neterr", "status", "parse"}

(***************************************************************************)
(* Several invocations in flight.  Node runs one continuation at a time:   *)
(* the variables pc .. answers are the bindings of the invocation whose    *)
(* continuation runs next, others holds the bindings of the invocations    *)
(* that wait at an await (or have not begun).                              *)
(***************************************************************************)
\* the bindings of the invocation that is running
Frame ==
  [pc |-> pc, entry |-> entry, name |-> name, args |-> args, tool |-> tool,
   client |-> client, payload |-> payload, norm |-> norm, sent |-> sent,
   fallback |-> fallback, envelope |-> envelope, answers |-> answers]

\* bindings in which path, limit and page are those of whichever invocation ran last
ClosureSharedParams(own, running) == [own EXCEPT !.norm = running.norm]

\* the bindings a continuation resumes with: the consts and lets of the
\* handler and of the tool function are local to the invocation
Closure(own, running) == own

\* the event loop turns to another invocation: the i-th waiting one
Switch(i) ==
  /\ pc \in {"idle", "direct", "native", "client"}
  /\ i \in 1..Len(others)
  /\ others[i].pc # "idle" \/ pc # "idle"
  /\ others' = [others EXCEPT ![i] = Frame]
  /\ LET f == Closure(others[i], Frame)
     IN /\ pc' = f.pc
        /\ entry' = f.entry
        /\ name' = f.name
        /\ args' = f.args
        /\ tool' = f.tool
        /\ client' = f.client
        /\ payload' = f.payload
        /\ norm' = f.norm
        /\ sent' = f.sent
        /\ fallback' = f.fallback
        /\ envelope' = f.envelope
        /\ answers' = f.answers
  /\ UNCHANGED <<seen, startup>>

\* the calls and the remote answers of the concurrent runs
ParListBags ==
  {Bag(StrV(<<"/", "a">>), Undef, Undef, Undef, Undef),
   Bag(StrV(<<"b">>), StrV(<<"2">>), StrV(<<"2">>), Undef, Undef)}
ParOutcomes(t) ==
  {o \in HttpOutcomes(t) :
     \/ ~NativeResolves(o)
     \/ ~PrimaryUsable(t, o.json)
     \/ /\ o.status = 200
        /\ o.json.pages.items \in {<<>>, <<"/a">>}
        /\ o.json.data.items \in {<<>>, <<"/a">>}
        /\ o.json.totalCount \in {Undef, NumV(Int2Num(1))}}
ParClientOutcomes(t, p, k) ==
  {c \in ClientOutcomes(t, p, k) :
     \/ c.threw
     \/ ~c.resp.ok /\ c.resp.error # ""
     \/ /\ c.resp.ok /\ c.resp.pages.items = <<"/b">>
        /\ c.resp.meta.has => c.resp.meta.total = Int2Num(1)}

NextPar ==
  \/ Startup
  \/ \E a \in ParListBags : CallListPages(a)
  \/ \E a \in FairRecentBags : CallRecentlyUpdatedPages(a)
  \/ CallUnknownTool("growi_list_pages", NoArgs)
  \/ \E o \in ParOutcomes("list") : DirectSettles(o)
  \/ \E o \in ParOutcomes(tool) : NativeSettles(o)
  \/ \E c \in ParClientOutcomes(tool, norm.p, client) : ClientSettles(c)
  \/ \E i \in 1..(MaxCalls - 1) : Switch(i)
  \/ Responds

SpecPar == Init /\ [][NextPar]_vars

\* the envelope a tool function returns for params a with client k when the
\* native request is answered by ans (none: not sent) and the client call
\* settles as fb
ToolAlone(t, a, k, ans, fb) ==
  LET nz == Normalize(t, a)
  IN IF ~nz.ok THEN ToolResult(ErrorPrefix(t) \o ": " \o nz.msg)
     ELSE IF k = "real" /\ ans # <<>> /\ NativeResolves(ans[1])
             /\ PrimaryUsable(t, ans[1].json)
     THEN ToolResult(PrimaryText(t, nz.p, ans[1].json))
     ELSE FallbackResult(t, nz.p, fb)

\* the envelope the tools/call handler returns for name n and arguments a
\* when its requests are answered by ans, in order, and the client call
\* settles as fb
HandlerAlone(n, a, ans, fb) ==
  IF n = ListTool
  THEN IF a.present /\ ~DirectRejects(ans[1])
       THEN DirectResult(DirectParams(a), ans[1])
       ELSE ToolAlone("list", a, "real", IF a.present THEN Tail(ans) ELSE ans, fb)
  ELSE IF n = RecentTool
  THEN IF a.present THEN ToolAlone("recent", RecentCallBag(a), "real", ans, fb)
       ELSE ErrorResult(
              "Error executing tool: Cannot read properties of undefined (reading 'limit')")
  ELSE UnknownToolResult(n)

\* C28: with several invocations in flight and their continuations
\* interleaved in any order, the envelope of each invocation is the one the
\* handler returns for its name and arguments and the answers it received
\* when it runs alone, and the base URL and the token keep their start-up
\* values.
C28_InvocationsIndependent ==
  /\ []((pc = "done" /\ entry = "dispatch") =>
          envelope = HandlerAlone(name, args, answers, fallback))
  /\ [][apiUrl' = apiUrl /\ apiToken' = apiToken]_vars

C28_Witness ==
  /\ pc = "done" /\ entry = "dispatch" /\ name = ListTool /\ fallback.called
  /\ \E i \in 1..Len(others) : others[i].pc = "client" /\ others[i].name = RecentTool

\* C29: when every request that is sent is eventually answered or fails,
\* every invocation eventually returns; what it returns is one envelope,
\* and a returned envelope is not replaced by another.
C29_EveryCallReturnsOnce ==
  /\ (pc \in {"direct", "native", "client"}) ~> (pc = "done")
  /\ [](pc = "done" => envelope # NoEnvelope)
  /\ [][envelope # NoEnvelope => (envelope' = envelope \/ pc' = "idle")]_vars

C29_Witness ==
  /\ pc = "done" /\ entry = "dispatch" /\ Len(sent) = 3
  /\ envelope # NoEnvelope

\* C30: when the text of list pages or recently updated pages ends with a
\* line "Showing s-e of T total pages", then 1 <= s <= e <= T.
C30_PaginationNumbersOrdered ==
  (pc = "done" /\ sent # <<>> /\ Answered.tool \in {"list", "recent"}) =>
    LET endsWith(t, x) == Len(t) >= Len(x) /\ SubSeq(t, Len(t) - Len(x) + 1, Len(t)) = x
        shown == 0..(MaxPages + 2)
    IN \A T \in shown :
         endsWith(Text, " of " \o ToString(T) \o " total pages") =>
           \A s, e \in shown :
             endsWith(Text, "\nShowing " \o ToString(s) \o "-" \o ToString(e) \o " of "
                            \o ToString(T) \o " total pages") =>
               (1 <= s /\ s <= e /\ e <= T)

====
